---- MODULE Spec2Model ----
(***************************************************************************)
(* Filament monitor: the polling loop of filament_monitor.py (tracker and  *)
(* display cycler) and the NDEF/TLV tag codec of tag_storage.py.           *)
(*                                                                         *)
(* Numbers.  The program computes with floats.  The model is fixed point:  *)
(* spool geometry (min_d, max_d, width) in whole millimetres, remaining    *)
(* and full quantities in thousandths (millimetres of filament, milligrams *)
(* of mass), which is the grid round(x, 3) keeps them on.  Radii are kept  *)
(* in hundredths of a millimetre and pi is 355/113.                        *)
(***************************************************************************)
EXTENDS Integers, Sequences, FiniteSets, TLC

\* ------------------------------------------------------------------ bounds
\* Number of polling-loop iterations followed.
MaxPolls == 10

\* --------------------------------------------------------------- constants
TAG_ABSENCE_MS == 5000
DISPLAY_INTERVAL_MS == 1000

\* One loop iteration of the model lasts half the absence threshold, so the
\* gaps the loop measures hit TAG_ABSENCE_MS and 4 * TAG_ABSENCE_MS exactly
\* and also fall strictly between and below them.
PollMs == TAG_ABSENCE_MS \div 2

None == "None"
\* current_state = None
NoState == [none |-> TRUE]

\* -------------------------------------------------------------- arithmetic
Max(a, b) == IF a >= b THEN a ELSE b
Min(a, b) == IF a <= b THEN a ELSE b

\* a * b / c for a, b >= 0 and c > 0, rounded down, without forming a * b.
MulDiv(a, b, c) == (a \div c) * b + ((a % c) * b) \div c

\* Division rounded to the nearest integer (n >= 0, d > 0).
RoundDiv(n, d) == (2 * n + d) \div (2 * d)

RECURSIVE SqrtSearch(_, _, _)
SqrtSearch(x, lo, hi) ==
    IF lo >= hi THEN lo
    ELSE LET mid == (lo + hi + 1) \div 2
         IN  IF mid * mid <= x THEN SqrtSearch(x, mid, hi)
             ELSE SqrtSearch(x, lo, mid - 1)

\* math.sqrt on the fixed-point grid: the largest r with r * r <= x.
Sqrt(x) == SqrtSearch(x, 0, 40000)

\* ---------------------------------------------------------- physical model
\* dict helpers: a document is a function from its keys to their values.
Has(data, key) == key \in DOMAIN data
Get(data, key, default) == IF Has(data, key) THEN data[key] ELSE default
Put(data, key, value) ==
    [k \in DOMAIN data \cup {key} |-> IF k = key THEN value ELSE data[k]]
SetDefault(data, key, value) == IF Has(data, key) THEN data ELSE Put(data, key, value)

\* length_from_radius with radius = max_d / 2 and core_radius = min_d / 2
\* (the one call the program makes); the result in millimetres of filament.
\* pi * width * shell / FILAMENT_AREA_MM2 = width * shell * 64 / 49.
length_from_radius(max_d, min_d, width) ==
    LET shell4 == Max(max_d * max_d - min_d * min_d, 0)   \* 4 * shell
    IN  IF shell4 <= 0 \/ width <= 0 THEN 0
        ELSE (width * shell4 * 16) \div 49

\* radius_from_length, radii in hundredths of a millimetre.
\* shell = length_mm * FILAMENT_AREA_MM2 / (pi * width) = length_mm * 49 / (64 * width)
radius_from_length(length, core_radius, width, max_radius) ==
    IF width <= 0 THEN core_radius
    ELSE LET length_mm == Max(length, 0)
             shell     == MulDiv(length_mm, 30625, 4 * width)
             radius_sq == core_radius * core_radius + shell
             radius    == Sqrt(Max(radius_sq, core_radius * core_radius))
         IN  Min(radius, max_radius)

\* meters_per_rotation: the circumference at the current radius, in
\* millimetres of filament.
meters_per_rotation(state) ==
    LET radius == radius_from_length(state.data["meters_rem"], state.core_radius_mm,
                                     state.width_mm, state.max_radius_mm)
    IN  IF radius <= 0 THEN 0
        ELSE Max(RoundDiv(radius * 710, 11300), 0)

\* grams_per_meter_from_data, as a fraction <<numerator, denominator>>.
\* The fallback is 1.24 * (FILAMENT_AREA_MM2 / 100) * 1000 = 29.82 g/m.
grams_per_meter_from_data(data) ==
    LET meters_full == Get(data, "meters_full", 0)
        grams_full  == Get(data, "grams_full", 0)
    IN  IF meters_full > 0 /\ grams_full > 0 THEN <<grams_full, meters_full>>
        ELSE <<2982, 100>>

clamp(value, minimum, maximum) == Max(minimum, Min(value, maximum))

RequiredKeys == {"min_d", "max_d", "width", "grams_rem", "meters_rem"}

\* normalise_tag_data raises ValueError when a required key is missing.
NormaliseRaises(data) == ~(RequiredKeys \subseteq DOMAIN data)

\* "not x or x <= 0" for a value fetched with data.get(key).
AbsentOrNonPositive(data, key) == ~Has(data, key) \/ data[key] <= 0

\* normalise_tag_data for a document that has the required keys.
normalise_tag_data(data) ==
    LET d1 == SetDefault(SetDefault(data, "ver", 1), "fil_d", 1750)
        meters_full == IF AbsentOrNonPositive(d1, "meters_full")
                       THEN length_from_radius(d1["max_d"], d1["min_d"], d1["width"])
                       ELSE d1["meters_full"]
        d2 == Put(d1, "meters_full", meters_full)
        grams_full == IF AbsentOrNonPositive(d2, "grams_full")
                      THEN Get(d2, "grams_rem", 0)
                      ELSE d2["grams_full"]
        d3 == Put(d2, "grams_full", grams_full)
        d4 == Put(d3, "grams_rem", clamp(Get(d3, "grams_rem", grams_full), 0, grams_full))
        d5 == Put(d4, "meters_rem", clamp(Get(d4, "meters_rem", meters_full), 0, meters_full))
    IN  [data |-> d5,
         core_radius_mm |-> d5["min_d"] * 50,
         max_radius_mm |-> d5["max_d"] * 50,
         width_mm |-> d5["width"],
         g_per_m |-> grams_per_meter_from_data(d5)]


\* int(round(value)) of a quantity held in thousandths: ties go to the even
\* integer.
RoundToInt(value) ==
    LET q == value \div 1000
        r == value % 1000
    IN  IF 2 * r < 1000 THEN q
        ELSE IF 2 * r > 1000 THEN q + 1
        ELSE IF q % 2 = 0 THEN q ELSE q + 1

\* format_quantity: the three digits shown, with the unit letter.
format_quantity(value, unit) == <<clamp(RoundToInt(value), 0, 999), unit>>

\* consume_filament_rotation: whether the step is taken at all (line 276).
StepTaken(state) == meters_per_rotation(state) > 0

\* consume_filament_rotation: the state after the decrement (lines 279-286).
consume_filament_rotation(state) ==
    LET meters_step == meters_per_rotation(state)
        grams_step  == RoundDiv(meters_step * state.g_per_m[1], state.g_per_m[2])
        data        == state.data
        meters_rem  == Max(Max(data["meters_rem"] - meters_step, 0), 0)
        grams_rem   == Max(Max(data["grams_rem"] - grams_step, 0), 0)
    IN  IF meters_step <= 0 THEN state
        ELSE [state EXCEPT !.data = Put(Put(data, "meters_rem", meters_rem),
                                        "grams_rem", grams_rem)]

\* ------------------------------------------------------------------- tags
UIDs == {"A", "B"}

DocFull ==
    [type |-> "PLA", min_d |-> 52, max_d |-> 200, width |-> 67,
     grams_full |-> 950000, grams_rem |-> 950000,
     meters_full |-> 815945, meters_rem |-> 815945]

\* A nearly empty spool whose tag carries no full quantities.
DocLow ==
    [min_d |-> 52, max_d |-> 200, width |-> 67, grams_rem |-> 500, meters_rem |-> 300]

\* A tag whose remaining mass is negative and whose full mass is absent.
DocNeg ==
    [type |-> "PETG", min_d |-> 52, max_d |-> 200, width |-> 67,
     grams_rem |-> -5000, meters_rem |-> 10000]

\* A document without one of the required keys.
DocNoWidth ==
    [type |-> "PLA", min_d |-> 52, max_d |-> 200, grams_rem |-> 500, meters_rem |-> 300]

\* A full spool of another material with the same quantities as DocFull.
DocFullPetg == [DocFull EXCEPT !.type = "PETG"]

\* A document whose geometry is out of range: max_d is below min_d.
DocBadGeom ==
    [type |-> "PLA", min_d |-> 52, max_d |-> 40, width |-> 67,
     grams_full |-> 950000, grams_rem |-> 500000,
     meters_full |-> 815945, meters_rem |-> 400000]

\* A document whose "type" is not a string: {"type": null, ...}, which
\* ujson.loads turns into None.
DocTypeNull ==
    [type |-> None, min_d |-> 52, max_d |-> 200, width |-> 67,
     grams_full |-> 950000, grams_rem |-> 950000,
     meters_full |-> 815945, meters_rem |-> 815945]

\* What a tag holds, as read_ndef_json sees it: nothing (it returns None),
\* bytes that do not decode to a document (it raises), or a document.
BlankTag == [kind |-> "blank"]
CorruptTag == [kind |-> "corrupt"]
DocTag(d) == [kind |-> "doc", data |-> d]

TagContents ==
    {BlankTag, CorruptTag, DocTag(DocFull), DocTag(DocLow), DocTag(DocNeg),
     DocTag(DocNoWidth), DocTag(DocBadGeom), DocTag(DocTypeNull)}


\* ---------------------------------------------------------- DisplayCycler
Modes == <<"type", "grams", "meters">>

\* _last_payload = None
NoPayload == <<>>

\* What the TM1637 shows after display.show("----").
Blank == <<"----">>

\* DisplayCycler.__init__ (constructed at time 0).
CyclerInit ==
    [index |-> 0, next_tick |-> DISPLAY_INTERVAL_MS, current_uid |-> None,
     last_payload |-> NoPayload]

\* DisplayCycler.reset: the fields after it (it also shows "----").
CyclerReset(t) ==
    [index |-> 0, next_tick |-> t + DISPLAY_INTERVAL_MS, current_uid |-> None,
     last_payload |-> NoPayload]

\* update, line 172: "not uid or not state".
NothingToShow(uid, state) == uid = None \/ state = NoState

\* update, lines 178-181: a uid other than the displayed one restarts the cycle.
CyclerRestart(c, uid, t) ==
    IF uid # c.current_uid
    THEN [c EXCEPT !.current_uid = uid, !.index = 0, !.next_tick = t + DISPLAY_INTERVAL_MS]
    ELSE c

\* update, lines 183-185: the timer advances the mode.
CyclerTick(c, t) ==
    IF t - c.next_tick >= 0
    THEN [c EXCEPT !.index = (c.index + 1) % Len(Modes), !.next_tick = t + DISPLAY_INTERVAL_MS]
    ELSE c

\* update, lines 187-188.
Payload(c, state) ==
    <<Modes[c.index + 1], state.data["grams_rem"], state.data["meters_rem"]>>

\* A comparison that never finds the payload unchanged.
Suppressed_Never(payload, last_payload) == payload = NoPayload

\* update, line 189: the render is skipped.
Suppressed(payload, last_payload) == payload = last_payload

\* update, lines 193-203: the text handed to display.show for a mode.
RenderText(mode, state) ==
    IF mode = "type" THEN <<"type", Get(state.data, "type", "----")>>
    ELSE IF mode = "grams" THEN format_quantity(state.data["grams_rem"], "G")
    ELSE format_quantity(state.data["meters_rem"], "L")

\* update, line 195: filament_type.upper() raises AttributeError when the
\* document's "type" is not a string.
RenderRaises(mode, state) == mode = "type" /\ Get(state.data, "type", "----") = None

\* DisplayCycler.update(uid, state) at time t: the cycler's fields after the
\* call, the display.show calls it made, in order, and whether it raised
\* (which it does after line 191 and before any show).
CyclerUpdate(c, uid, state, t) ==
    IF NothingToShow(uid, state)
    THEN IF c.current_uid # None
         THEN [cycler |-> CyclerReset(t), shows |-> <<Blank>>, rendered |-> NoPayload,
               raised |-> FALSE]
         ELSE [cycler |-> c, shows |-> <<>>, rendered |-> NoPayload, raised |-> FALSE]
    ELSE LET c2 == CyclerTick(CyclerRestart(c, uid, t), t)
             payload == Payload(c2, state)
         IN  IF Suppressed(payload, c2.last_payload)
             THEN [cycler |-> c2, shows |-> <<>>, rendered |-> NoPayload,
                   raised |-> FALSE]
             ELSE IF RenderRaises(payload[1], state)
             THEN [cycler |-> [c2 EXCEPT !.last_payload = payload],
                   shows |-> <<>>, rendered |-> NoPayload, raised |-> TRUE]
             ELSE [cycler |-> [c2 EXCEPT !.last_payload = payload],
                   shows |-> <<RenderText(payload[1], state)>>,
                   rendered |-> payload, raised |-> FALSE]


\* ------------------------------------------------------------ tag codec
NDEF_TLV == 3
TERMINATOR_TLV == 254
START_PAGE == 4
MAX_PAGE == 134

\* Python's s[a:b] on a sequence (0-based, clipped to the sequence).
Slice(s, a, b) == SubSeq(s, a + 1, Min(b, Len(s)))

\* n.to_bytes(k, "big") for k = 2 and k = 4 (n < 2^16).
ToBytes2(n) == <<n \div 256, n % 256>>
ToBytes4(n) == <<0, 0, n \div 256, n % 256>>

RECURSIVE FromBytes(_)
\* int.from_bytes(s, "big")
FromBytes(s) ==
    IF s = <<>> THEN 0 ELSE FromBytes(SubSeq(s, 1, Len(s) - 1)) * 256 + s[Len(s)]

\* "x in block"
Contains(block, x) == \E i \in 1..Len(block) : block[i] = x

\* "en".encode("ascii")
LangEn == <<101, 110>>

\* _encode_text_record(text) with the default language, for payloads below
\* 2^16 bytes.
EncodeTextRecord(text) ==
    LET status  == Len(LangEn) % 64
        payload == <<status>> \o LangEn \o text
        header  == IF Len(payload) > 255 THEN 193 ELSE 209
        length  == IF Len(payload) > 255 THEN ToBytes4(Len(payload)) ELSE <<Len(payload)>>
    IN  <<header, 1>> \o length \o <<84>> \o payload

\* _encode_tlv taking the one-byte form up to 255.
EncodeTlv_OneByte255(record_bytes) ==
    LET length == Len(record_bytes)
    IN  <<NDEF_TLV>>
        \o (IF length > 255 THEN <<255>> \o ToBytes2(length) ELSE <<length>>)
        \o record_bytes
        \o <<TERMINATOR_TLV>>

\* _encode_tlv
EncodeTlv(record_bytes) ==
    LET length == Len(record_bytes)
    IN  <<NDEF_TLV>>
        \o (IF length > 254 THEN <<255>> \o ToBytes2(length) ELSE <<length>>)
        \o record_bytes
        \o <<TERMINATOR_TLV>>

\* text.decode("utf-8"): the texts of the model are ASCII, and a byte of
\* 0x80 or more that no multi-byte sequence explains makes the decode raise.
Utf8Decodes(bytes) == \A i \in 1..Len(bytes) : bytes[i] < 128

\* _decode_text_record.  The outcome is None ("none"), a text ("text"), or
\* an exception ("raise": IndexError on a message too short for the byte it
\* indexes, the debug print of line 42 included, or UnicodeError).
DecodeTextRecord(message) ==
    IF Len(message) < 1 THEN [kind |-> "raise"]                      \* line 42
    ELSE LET header       == message[1]
             short_record == (header \div 16) % 2 = 1
             has_id       == (header \div 8) % 2 = 1
         IN
         IF header % 8 # 1 THEN [kind |-> "none"]
         ELSE IF Len(message) < 2 THEN [kind |-> "raise"]            \* line 52
         ELSE IF short_record /\ Len(message) < 3 THEN [kind |-> "raise"]  \* line 55
         ELSE
         LET type_length    == message[2]
             payload_length == IF short_record THEN message[3]
                               ELSE FromBytes(Slice(message, 2, 6))
             idx1           == IF short_record THEN 3 ELSE 6
             record_type    == Slice(message, idx1, idx1 + type_length)
             idx2           == idx1 + type_length
         IN
         IF has_id /\ idx2 >= Len(message) THEN [kind |-> "none"]
         ELSE
         LET idx3    == IF has_id THEN idx2 + 1 + message[idx2 + 1] ELSE idx2
             payload == Slice(message, idx3, idx3 + payload_length)
         IN
         IF record_type # <<84>> THEN [kind |-> "none"]
         ELSE IF payload = <<>> THEN [kind |-> "text", text |-> <<>>]
         ELSE LET lang_length == payload[1] % 64
                  text        == Slice(payload, 1 + lang_length, Len(payload))
              IN  IF Utf8Decodes(text) THEN [kind |-> "text", text |-> text]
                  ELSE [kind |-> "raise"]

\* The characters text.strip("\x00\xfe \r\n\t") removes that an ASCII text
\* can hold.
StripSet == {0, 32, 13, 10, 9}

\* text.strip(...): the text between its first and its last character that
\* is not stripped.
Strip(t) ==
    LET keep == {i \in 1..Len(t) : t[i] \notin StripSet}
    IN  IF keep = {} THEN <<>>
        ELSE SubSeq(t, CHOOSE i \in keep : \A j \in keep : i <= j,
                       CHOOSE i \in keep : \A j \in keep : i >= j)

\* ujson is a collaborator: a document is identified with the text ujson.dumps
\* gives for it, a brace-delimited object, and ujson.loads accepts exactly the
\* texts that open with "{" and close with "}".
JsonLoads(text) == Len(text) >= 2 /\ text[1] = 123 /\ text[Len(text)] = 125

\* ujson.dumps of the document with n characters of serialised text, whose
\* inner characters are the byte fill.
JsonText(n, fill) == <<123>> \o [i \in 1..(n - 2) |-> fill] \o <<125>>

\* ------------------------------------------------------------ tag store
\* The tag's user pages: page index -> its four bytes.
Pages == START_PAGE..MAX_PAGE

ZeroPage == <<0, 0, 0, 0>>

\* "tlv.extend(b'\x00' * padding)", lines 169-171.
Pad4(tlv) ==
    IF Len(tlv) % 4 # 0 THEN tlv \o [i \in 1..(4 - (Len(tlv) % 4)) |-> 0] ELSE tlv

\* tlv[offset:offset + 4] for the n-th page written (n = 0, 1, ...).
BlockOf(tlv, n) == SubSeq(tlv, 4 * n + 1, 4 * n + 4)

\* A tag memory that holds the given bytes from START_PAGE on, zero elsewhere.
MemOf(bytes) ==
    LET padded == Pad4(bytes)
    IN  [p \in Pages |->
            IF 4 * (p - START_PAGE) < Len(padded)
            THEN BlockOf(padded, p - START_PAGE) ELSE ZeroPage]

\* The capacity check one page too generous.
CapacityExceeded_OffByOne(start_page, total_pages) ==
    start_page + total_pages > MAX_PAGE + 2

\* Line 175: the padded container does not fit.
CapacityExceeded(start_page, total_pages) == start_page + total_pages > MAX_PAGE + 1

\* Lines 180-187: the k-th write call fails (k = failAt).
WriteFails(failAt, total_pages) == failAt >= 1 /\ failAt <= total_pages

\* The write loop going on to the end after a failed page.
PagesWritten_NoStop(failAt, total_pages) == total_pages

\* Lines 180-187: how many pages the loop has written when it ends; it stops
\* at the first failed write (lines 183-184).
PagesWritten(failAt, total_pages) ==
    IF WriteFails(failAt, total_pages) THEN failAt - 1 ELSE total_pages

\* write_ndef_json(pn532, data, start_page), data being the document whose
\* serialised text is given.  failAt = k > 0 makes the k-th ntag2xx_write_block
\* call return False (a failed page write leaves the page as it was); 0 lets
\* every call succeed.  The outcome: "ok" with the page count, "capacity"
\* (ValueError, line 176) or "write_error" with the page (RuntimeError, line
\* 184); calls lists the pages handed to ntag2xx_write_block, in order.
write_ndef_json(mem, text, start_page, failAt) ==
    LET tlv         == Pad4(EncodeTlv(EncodeTextRecord(text)))
        total_pages == Len(tlv) \div 4
        fails       == WriteFails(failAt, total_pages)
        done        == PagesWritten(failAt, total_pages)
        calls       == [i \in 1..(IF fails THEN failAt ELSE total_pages) |->
                           start_page + i - 1]
    IN  IF CapacityExceeded(start_page, total_pages)
        THEN [kind |-> "capacity", page |-> 0, calls |-> <<>>, mem |-> mem]
        ELSE [kind  |-> IF fails THEN "write_error" ELSE "ok",
              page  |-> IF fails THEN start_page + failAt - 1 ELSE total_pages,
              calls |-> calls,
              mem   |-> [p \in DOMAIN mem |->
                            IF p >= start_page /\ p < start_page + done
                            THEN BlockOf(tlv, p - start_page) ELSE mem[p]]]

\* Line 101.
EndPage(start_page, max_pages) == Min(MAX_PAGE, start_page + max_pages)

\* Line 107: the page read ends the reading.
StopsReading(block) == Contains(block, TERMINATOR_TLV)

\* The page loop of read_ndef_json, lines 102-108: the last page handed to
\* ntag2xx_read_block.  failAt = k > 0 makes the k-th call return None; the
\* loop ends at that page, at the first page holding a terminator byte, or at
\* end_page.
LastPageRead(mem, start_page, end_page, failAt) ==
    LET stops == {p \in start_page..end_page :
                     p - start_page + 1 = failAt \/ StopsReading(mem[p])}
    IN  IF stops = {} THEN end_page
        ELSE CHOOSE p \in stops : \A q \in stops : p <= q

\* The bytes the page loop accumulates in raw and the pages it asked for.
ReadLoop(mem, start_page, end_page, failAt) ==
    LET last  == LastPageRead(mem, start_page, end_page, failAt)
        calls == [i \in 1..(last - start_page + 1) |-> start_page + i - 1]
        kept  == IF last - start_page + 1 = failAt THEN Len(calls) - 1 ELSE Len(calls)
    IN  [raw   |-> [i \in 1..(4 * kept) |->
                       mem[start_page + ((i - 1) \div 4)][((i - 1) % 4) + 1]],
         calls |-> calls]

\* Lines 119-121: the index (0-based) of the first byte at or after idx that
\* is not 0x00 padding, Len(raw) when there is none.
SkipPadding(raw, idx) ==
    LET rest == {i \in idx..(Len(raw) - 1) : raw[i + 1] # 0}
    IN  IF rest = {} THEN Len(raw)
        ELSE CHOOSE i \in rest : \A j \in rest : i <= j

\* The container scan of read_ndef_json, lines 117-143 and 159, from index idx
\* (0-based): the NDEF message found ("message"), nothing ("none"), or the
\* read of the unassigned local "message" at line 143 when the first
\* container is not an NDEF container ("unbound", a NameError).  Every path
\* through the loop body past the padding leaves the loop, so the scan looks
\* at one container only: lines 156-158 are never executed.
ScanFrom(raw, idx0) ==
    LET idx == SkipPadding(raw, idx0)
    IN
    IF idx >= Len(raw) THEN [kind |-> "none"]
    ELSE LET tlv_type == raw[idx + 1]
         IN
         IF tlv_type = TERMINATOR_TLV THEN [kind |-> "none"]
         ELSE IF idx + 1 >= Len(raw) THEN [kind |-> "none"]
         ELSE IF tlv_type = NDEF_TLV
         THEN LET len1 == raw[idx + 2]
              IN  IF len1 = 255
                  THEN IF idx + 4 > Len(raw) THEN [kind |-> "none"]
                       ELSE LET tlv_len == raw[idx + 3] * 256 + raw[idx + 4]
                            IN  [kind |-> "message",
                                 message |-> Slice(raw, idx + 4, idx + 4 + tlv_len)]
                  ELSE [kind |-> "message",
                        message |-> Slice(raw, idx + 2, idx + 2 + len1)]
         ELSE [kind |-> "unbound"]

\* Lines 143-154: from the scanned message to the outcome of read_ndef_json:
\* None ("none"), the document ("doc"), the exception ujson.loads raised
\* ("parse_error"), or another exception ("error").
Interpret(scanned) ==
    IF scanned.kind = "none" THEN [kind |-> "none"]
    ELSE IF scanned.kind = "unbound" THEN [kind |-> "error"]
    ELSE LET decoded == DecodeTextRecord(scanned.message)
         IN  IF decoded.kind = "raise" THEN [kind |-> "error"]
             ELSE IF decoded.kind = "none" THEN [kind |-> "none"]
             ELSE IF decoded.text = <<>> THEN [kind |-> "none"]
             ELSE IF JsonLoads(Strip(decoded.text))
                  THEN [kind |-> "doc", text |-> Strip(decoded.text)]
                  ELSE [kind |-> "parse_error"]

\* read_ndef_json(pn532, start_page, max_pages): its outcome, the bytes it
\* accumulated and the pages it handed to ntag2xx_read_block, in order.
read_ndef_json(mem, start_page, max_pages, failAt) ==
    LET r == ReadLoop(mem, start_page, EndPage(start_page, max_pages), failAt)
    IN  [result |-> IF r.raw = <<>> THEN [kind |-> "none"]
                    ELSE Interpret(ScanFrom(r.raw, 0)),
         raw    |-> r.raw,
         calls  |-> r.calls]

\* ------------------------------------------------------------------ state
VARIABLES
    now,                \* main: the time read at the top of the iteration
    uid,                \* main: what read_passive_target returned
    current_uid,        \* main
    current_state,      \* main
    last_detection_ms,  \* main
    seen_once,          \* main: the confirmed flag
    cycler,             \* the DisplayCycler's fields
    display,            \* what the TM1637 shows
    tag,                \* what each tag holds
    tagRead,            \* this iteration called read_ndef_json
    readErr,            \* this iteration's read_ndef_json raised
    fatal,              \* an exception left main: the loop has ended
    consumed,           \* this iteration called consume_filament_rotation
    written,            \* this iteration's write_ndef_json: "none", "ok", "failed"
    resighted,          \* the tracked tag was seen again since it was loaded
    rendered,           \* the payload this update rendered, or NoPayload
    lastRender,         \* the payload of the latest render; NoPayload after a blank
    mem,                \* tag store: the tag's pages
    phase,              \* tag store: "fresh", "written", "read" ("off": not in use)
    wr,                 \* tag store: the write_ndef_json call made and its outcome
    rd                  \* tag store: the latest read_ndef_json call and its outcome

vars ==
    <<now, uid, current_uid, current_state, last_detection_ms, seen_once, cycler,
      display, tag, tagRead, readErr, fatal, consumed, written, resighted, rendered,
      lastRender, mem, phase, wr, rd>>

loopVars ==
    <<now, uid, current_uid, current_state, last_detection_ms, seen_once, cycler,
      display, tag, tagRead, readErr, fatal, consumed, written, resighted, rendered,
      lastRender>>

storeVars == <<mem, phase, wr, rd>>

\* No call made.
NoCall == [kind |-> "idle"]

\* ---------------------------------------------------------- polling loop
\* main, lines 208-217.
LoopInit ==
    /\ now = 0
    /\ uid = None
    /\ current_uid = None
    /\ current_state = NoState
    /\ last_detection_ms = 0
    /\ seen_once = FALSE
    /\ cycler = CyclerInit
    /\ display = Blank
    /\ tag \in [UIDs -> TagContents]
    /\ tagRead = FALSE
    /\ readErr = FALSE
    /\ fatal = FALSE
    /\ consumed = FALSE
    /\ written = "none"
    /\ resighted = FALSE
    /\ rendered = NoPayload
    /\ lastRender = NoPayload

\* The next iteration's "now = time.ticks_ms()" (line 222).
NextNow == now + PollMs

\* display_cycler.update(current_uid, current_state), line 270, with the show
\* calls it makes.  The update's own clock reading is taken to be the
\* iteration's.  The call is outside every try block: an exception it raises
\* leaves main.
DisplayUpdate(u, state, t) ==
    LET r == CyclerUpdate(cycler, u, state, t)
    IN  /\ cycler' = r.cycler
        /\ display' = IF r.shows = <<>> THEN display ELSE r.shows[Len(r.shows)]
        /\ rendered' = r.rendered
        /\ lastRender' = IF r.shows = <<>> THEN lastRender ELSE r.rendered
        /\ fatal' = r.raised

\* Lines 228-234: read_ndef_json raised or returned None.
NoData(content, readOk) == ~readOk \/ content.kind # "doc"

\* Loadable with the exception of read_ndef_json ignored.
Loadable_IgnoresReadError(content, readOk) ==
    /\ content.kind = "doc"
    /\ ~NormaliseRaises(content.data)

\* Lines 234-250: the tag is loaded (data is there and normalise_tag_data
\* does not raise).
Loadable(content, readOk) ==
    /\ ~NoData(content, readOk)
    /\ ~NormaliseRaises(content.data)

\* ConsumeDue without the absence threshold.
ConsumeDue_AnyGap(state, seen, gap) == state # NoState /\ seen

\* ConsumeDue without the confirmed flag.
ConsumeDue_Unconfirmed(state, seen, gap) == state # NoState /\ gap >= TAG_ABSENCE_MS

\* Line 261: the absence counts as a rotation.
ConsumeDue(state, seen, gap) == state # NoState /\ seen /\ gap >= TAG_ABSENCE_MS

\* Line 263: the absence is long enough to forget the tag.
ResetDue(gap) == gap >= TAG_ABSENCE_MS * 4

\* Lines 226-250: a uid other than the tracked one is seen.
PollNewTag ==
    \E u \in UIDs, readOk \in BOOLEAN :
        /\ ~fatal
        /\ now < MaxPolls * PollMs
        /\ u # current_uid
        /\ now' = NextNow
        /\ UNCHANGED storeVars
        /\ uid' = u
        /\ tagRead' = TRUE
        /\ readErr' = ~readOk
        /\ IF Loadable(tag[u], readOk)
           THEN /\ current_state' = normalise_tag_data(tag[u].data)
                /\ current_uid' = u
                /\ seen_once' = FALSE
                /\ last_detection_ms' = NextNow
           ELSE /\ current_state' = NoState
                /\ current_uid' = None
                /\ seen_once' = FALSE
                /\ UNCHANGED last_detection_ms
        /\ consumed' = FALSE
        /\ written' = "none"
        /\ resighted' = FALSE
        /\ UNCHANGED tag
        /\ DisplayUpdate(current_uid', current_state', NextNow)

\* PollSameTag leaving the confirmed flag as it is.
PollSameTag_NoConfirm ==
    \E u \in UIDs :
        /\ ~fatal
        /\ now < MaxPolls * PollMs
        /\ u = current_uid
        /\ now' = NextNow
        /\ UNCHANGED storeVars
        /\ uid' = u
        /\ last_detection_ms' = NextNow
        /\ seen_once' = seen_once
        /\ tagRead' = FALSE
        /\ readErr' = FALSE
        /\ consumed' = FALSE
        /\ written' = "none"
        /\ resighted' = TRUE
        /\ UNCHANGED <<current_uid, current_state, tag>>
        /\ DisplayUpdate(current_uid, current_state, NextNow)

\* Lines 251-255: the tracked uid is seen again.
PollSameTag ==
    \E u \in UIDs :
        /\ ~fatal
        /\ now < MaxPolls * PollMs
        /\ u = current_uid
        /\ now' = NextNow
        /\ UNCHANGED storeVars
        /\ uid' = u
        /\ last_detection_ms' = NextNow
        /\ seen_once' = TRUE
        /\ tagRead' = FALSE
        /\ readErr' = FALSE
        /\ consumed' = FALSE
        /\ written' = "none"
        /\ resighted' = TRUE
        /\ UNCHANGED <<current_uid, current_state, tag>>
        /\ DisplayUpdate(current_uid, current_state, NextNow)

\* The outcome of the write_ndef_json call in consume_filament_rotation:
\* every page written, no page written, or some pages written before one
\* failed, which leaves the tag with bytes that do not decode to a document.
WriteOutcomes == {"ok", "failed", "partial"}

TagAfterWrite(content, data, outcome) ==
    IF outcome = "ok" THEN DocTag(data)
    ELSE IF outcome = "partial" THEN CorruptTag
    ELSE content

\* PollConsume taking the decrement back when the write fails.
PollConsume_RollsBack ==
    \E outcome \in WriteOutcomes :
        /\ ~fatal
        /\ now < MaxPolls * PollMs
        /\ current_uid # None
        /\ ConsumeDue(current_state, seen_once, NextNow - last_detection_ms)
        /\ now' = NextNow
        /\ UNCHANGED storeVars
        /\ uid' = None
        /\ consumed' = TRUE
        /\ current_state' = IF outcome = "ok" THEN consume_filament_rotation(current_state)
                            ELSE current_state
        /\ IF StepTaken(current_state)
           THEN /\ written' = (IF outcome = "ok" THEN "ok" ELSE "failed")
                /\ tag' = [tag EXCEPT ![current_uid] =
                              TagAfterWrite(@, consume_filament_rotation(current_state).data, outcome)]
           ELSE /\ written' = "none"
                /\ UNCHANGED tag
        /\ tagRead' = FALSE
        /\ readErr' = FALSE
        /\ UNCHANGED <<current_uid, seen_once, last_detection_ms, resighted>>
        /\ DisplayUpdate(current_uid, current_state', NextNow)

\* Lines 257-262: no tag is seen and the absence counts as a rotation.  The
\* tag in the field during the write is taken to be the tracked one.
PollConsume ==
    \E outcome \in WriteOutcomes :
        /\ ~fatal
        /\ now < MaxPolls * PollMs
        /\ current_uid # None
        /\ ConsumeDue(current_state, seen_once, NextNow - last_detection_ms)
        /\ now' = NextNow
        /\ UNCHANGED storeVars
        /\ uid' = None
        /\ consumed' = TRUE
        /\ current_state' = consume_filament_rotation(current_state)
        /\ IF StepTaken(current_state)
           THEN /\ written' = (IF outcome = "ok" THEN "ok" ELSE "failed")
                /\ tag' = [tag EXCEPT ![current_uid] =
                              TagAfterWrite(@, current_state'.data, outcome)]
           ELSE /\ written' = "none"
                /\ UNCHANGED tag
        /\ tagRead' = FALSE
        /\ readErr' = FALSE
        /\ UNCHANGED <<current_uid, seen_once, last_detection_ms, resighted>>
        /\ DisplayUpdate(current_uid, current_state', NextNow)

\* PollReset forgetting the uid and keeping the state.
PollReset_KeepsState ==
    /\ ~fatal
    /\ now < MaxPolls * PollMs
    /\ current_uid # None
    /\ ~ConsumeDue(current_state, seen_once, NextNow - last_detection_ms)
    /\ ResetDue(NextNow - last_detection_ms)
    /\ now' = NextNow
    /\ UNCHANGED storeVars
    /\ uid' = None
    /\ current_uid' = None
    /\ current_state' = current_state
    /\ seen_once' = FALSE
    /\ tagRead' = FALSE
    /\ readErr' = FALSE
    /\ consumed' = FALSE
    /\ written' = "none"
    /\ resighted' = FALSE
    /\ UNCHANGED <<last_detection_ms, tag>>
    /\ DisplayUpdate(None, NoState, NextNow)

\* Lines 263-267: no tag is seen, no rotation is due, and the tag has been
\* gone long enough to be forgotten.
PollReset ==
    /\ ~fatal
    /\ now < MaxPolls * PollMs
    /\ current_uid # None
    /\ ~ConsumeDue(current_state, seen_once, NextNow - last_detection_ms)
    /\ ResetDue(NextNow - last_detection_ms)
    /\ now' = NextNow
    /\ UNCHANGED storeVars
    /\ uid' = None
    /\ current_uid' = None
    /\ current_state' = NoState
    /\ seen_once' = FALSE
    /\ tagRead' = FALSE
    /\ readErr' = FALSE
    /\ consumed' = FALSE
    /\ written' = "none"
    /\ resighted' = FALSE
    /\ UNCHANGED <<last_detection_ms, tag>>
    /\ DisplayUpdate(None, NoState, NextNow)

\* Lines 257-263: no tag is seen and neither branch applies.
PollWait ==
    /\ ~fatal
    /\ now < MaxPolls * PollMs
    /\ current_uid # None
    /\ ~ConsumeDue(current_state, seen_once, NextNow - last_detection_ms)
    /\ ~ResetDue(NextNow - last_detection_ms)
    /\ now' = NextNow
    /\ UNCHANGED storeVars
    /\ uid' = None
    /\ tagRead' = FALSE
    /\ readErr' = FALSE
    /\ consumed' = FALSE
    /\ written' = "none"
    /\ UNCHANGED <<current_uid, current_state, seen_once, last_detection_ms, tag,
                   resighted>>
    /\ DisplayUpdate(current_uid, current_state, NextNow)

\* Line 258: no tag is seen and none is tracked.
PollIdle ==
    /\ ~fatal
    /\ now < MaxPolls * PollMs
    /\ current_uid = None
    /\ now' = NextNow
    /\ UNCHANGED storeVars
    /\ uid' = None
    /\ tagRead' = FALSE
    /\ readErr' = FALSE
    /\ consumed' = FALSE
    /\ written' = "none"
    /\ UNCHANGED <<current_uid, current_state, seen_once, last_detection_ms, tag,
                   resighted>>
    /\ DisplayUpdate(current_uid, current_state, NextNow)

\* The tag store on its own is not part of the loop's state.
StoreOff ==
    /\ mem = <<>>
    /\ phase = "off"
    /\ wr = NoCall
    /\ rd = NoCall

Init == LoopInit /\ StoreOff

Next ==
    \/ PollNewTag
    \/ PollSameTag
    \/ PollConsume
    \/ PollReset
    \/ PollWait
    \/ PollIdle

Spec == Init /\ [][Next]_vars

\* ------------------------------------------------- tag store on its own
\* The serialised-text lengths written: short texts, the lengths around a
\* 60-byte capacity (start page 120), around record lengths 254/255 (text
\* 247/248) and payload lengths 254..256 (text 251..253), around the 324
\* bytes a default read covers (text 310/311) and around the 524 bytes of
\* the whole tag (text 509/510).
TextLens == {2, 20, 49, 50, 51, 246, 247, 248, 251, 252, 253, 310, 311, 508, 509, 510}

\* The largest k for which the k-th page read or write is made to fail.
MaxFail == 3

FailAts == 0..MaxFail

\* read_ndef_json's default max_pages (line 97).
DEFAULT_MAX_PAGES == 80

StartPages == {START_PAGE, 120}

MaxPagesArgs == {DEFAULT_MAX_PAGES, 2}

\* Tag memories to start from: a zeroed tag; a terminator first; an NDEF
\* container of length zero; a text record with an empty text; a text record
\* whose text is no document ("ab"); a factory-formatted tag (lock control
\* container, then a document); a document of 300 characters written earlier.
InitMems ==
    {MemOf(<<>>),
     MemOf(<<TERMINATOR_TLV>>),
     MemOf(<<NDEF_TLV, 0, TERMINATOR_TLV>>),
     MemOf(EncodeTlv(EncodeTextRecord(<<>>))),
     MemOf(EncodeTlv(EncodeTextRecord(<<97, 98>>))),
     MemOf(<<1, 3, 160, 12, 52>> \o EncodeTlv(EncodeTextRecord(JsonText(20, 98)))),
     MemOf(EncodeTlv(EncodeTextRecord(JsonText(300, 98))))}

StoreInit ==
    /\ LoopInit
    /\ tag = [u \in UIDs |-> BlankTag]
    /\ mem \in InitMems
    /\ phase = "fresh"
    /\ wr = NoCall
    /\ rd = NoCall

\* A call of write_ndef_json on a tag not written before.
StoreWrite ==
    \E n \in TextLens, start_page \in StartPages, failAt \in FailAts :
        /\ phase = "fresh"
        /\ LET text == JsonText(n, 97)
               w    == write_ndef_json(mem, text, start_page, failAt)
           IN  /\ mem' = w.mem
               /\ wr' = [kind |-> w.kind, page |-> w.page, calls |-> w.calls,
                         text |-> text, start_page |-> start_page, failAt |-> failAt,
                         tlv |-> EncodeTlv(EncodeTextRecord(text)), before |-> mem]
        /\ phase' = "written"
        /\ UNCHANGED rd
        /\ UNCHANGED loopVars

\* A call of read_ndef_json.
StoreRead ==
    \E start_page \in StartPages, max_pages \in MaxPagesArgs, failAt \in FailAts :
        /\ phase \in {"fresh", "written"}
        /\ LET r == read_ndef_json(mem, start_page, max_pages, failAt)
           IN  rd' = [kind |-> "called", result |-> r.result, raw |-> r.raw,
                      calls |-> r.calls, start_page |-> start_page,
                      max_pages |-> max_pages, failAt |-> failAt]
        /\ phase' = "read"
        /\ UNCHANGED <<mem, wr>>
        /\ UNCHANGED loopVars

StoreNext == StoreWrite \/ StoreRead

SpecStore == StoreInit /\ [][StoreNext]_vars


\* ------------------------------------------------- claims: polling loop
\* The gap the latest iteration measured (line 260).
Gap == now - last_detection_ms

\* C1: at most one consumption step is performed per absence: after an
\* absent poll on which a step fired, a further consecutive absent poll
\* performs no step.
C1_OneStepPerAbsence == [][(consumed /\ uid' = None) => ~consumed']_vars

\* C2: a consumption step is performed only on a poll that observes no uid,
\* whose gap since the last sighting is at least TAG_ABSENCE_MS, and for a
\* tag that was seen again since it was loaded; a poll that sees the tracked
\* tag restarts the gap measurement at that poll's time.
C2_StepOnlyAfterConfirmedAbsence ==
    /\ consumed => (uid = None /\ Gap >= TAG_ABSENCE_MS /\ resighted)
    /\ (uid # None /\ uid = current_uid) => last_detection_ms = now

\* C2 witness: a step has fired on an absent poll of a re-sighted tag.
C2_Witness == consumed /\ uid = None /\ resighted /\ Gap >= TAG_ABSENCE_MS

\* C3: a tracked tag that is not sighted again is forgotten once the gap has
\* reached 4 * TAG_ABSENCE_MS: after an absent poll that measured such a gap
\* the tracker is Idle with all tracked state cleared.
C3_LongAbsenceResets ==
    (uid = None /\ Gap >= 4 * TAG_ABSENCE_MS)
        => (current_uid = None /\ current_state = NoState /\ ~seen_once)

\* C5: whenever a tag is tracked, its remaining quantities lie between 0 and
\* the full quantities.
C5_RemainingWithinFull ==
    current_uid # None =>
        /\ 0 <= current_state.data["grams_rem"]
        /\ current_state.data["grams_rem"] <= current_state.data["grams_full"]
        /\ 0 <= current_state.data["meters_rem"]
        /\ current_state.data["meters_rem"] <= current_state.data["meters_full"]

\* C12: normalise_tag_data is idempotent: for the document a tag was just
\* loaded from, normalising the loaded state's document again gives the same
\* core radius, maximum radius and grams per metre and leaves grams_rem,
\* meters_rem, grams_full and meters_full as they are.
C12_NormaliseIdempotent ==
    (tagRead /\ current_uid # None) =>
        LET again == normalise_tag_data(current_state.data)
        IN  /\ again.core_radius_mm = current_state.core_radius_mm
            /\ again.max_radius_mm = current_state.max_radius_mm
            /\ again.g_per_m = current_state.g_per_m
            /\ \A k \in {"grams_rem", "meters_rem", "grams_full", "meters_full"} :
                   again.data[k] = current_state.data[k]

\* The document has its required fields and a geometry in range.
ValidDocument(data) ==
    /\ RequiredKeys \subseteq DOMAIN data
    /\ data["width"] > 0
    /\ data["max_d"] > data["min_d"]
    /\ data["min_d"] >= 0

\* C13: a document with a required field missing or with its geometry out
\* of range (width <= 0, max_d <= min_d, min_d < 0) is rejected when it is
\* read: the poll that read it leaves the tracker Idle, and the tracker never
\* tracks a tag with such a document.
C13_RejectsInvalidDocuments ==
    /\ (tagRead /\ ~readErr /\ tag[uid].kind = "doc" /\ ~ValidDocument(tag[uid].data))
           => (current_uid = None /\ current_state = NoState)
    /\ current_uid # None => ValidDocument(current_state.data)

\* C14: whatever the tags hold and whichever page reads and writes fail, no
\* exception leaves the polling loop: every iteration ends with its display
\* update made and the loop goes on to the next poll.
C14_LoopNeverFatal == ~fatal

\* What a poll that read a tag must leave behind: the tag tracked, not yet
\* confirmed, last seen at the poll time, when the read gave a document that
\* passes validation; the tracker Idle with nothing kept otherwise.
LoadedOrIdle ==
    IF ~readErr /\ tag[uid].kind = "doc" /\ RequiredKeys \subseteq DOMAIN tag[uid].data
    THEN /\ current_uid = uid
         /\ current_state = normalise_tag_data(tag[uid].data)
         /\ ~seen_once
         /\ last_detection_ms = now
    ELSE /\ current_uid = None
         /\ current_state = NoState
         /\ ~seen_once

\* C16: a poll that observes a uid other than the tracked one reads the tag;
\* on success the new uid is tracked with confirmed = false and last_seen =
\* the poll time; on a read error, no data, a parse error or a validation
\* error the tracker is Idle with no uid, no state and confirmed = false.
C16_NewUidLoadsOrIdles ==
    /\ [][(uid' # None /\ uid' # current_uid) => tagRead']_vars
    /\ [](tagRead => LoadedOrIdle)

\* C16 witness: after a tag had been tracked, a poll saw a new uid whose
\* read raised, and the tracker is Idle.
C16_Witness ==
    /\ tagRead
    /\ readErr
    /\ last_detection_ms > 0
    /\ current_uid = None
    /\ current_state = NoState

\* C17: a poll that observes the tracked uid sets last_seen to the poll time
\* and confirmed to true and leaves the uid, the state and the tag as they
\* are, with no read, no step and no write; confirmed becomes true on no
\* other poll.
C17_SameUidOnlyConfirms ==
    [][/\ (uid' # None /\ uid' = current_uid)
           => /\ last_detection_ms' = now'
              /\ seen_once'
              /\ UNCHANGED <<current_uid, current_state, tag>>
              /\ ~tagRead'
              /\ ~consumed'
              /\ written' = "none"
       /\ (seen_once' /\ ~seen_once) => (uid' # None /\ uid' = current_uid)]_vars

\* C17 witness: the tracked tag has just been seen again and is confirmed.
C17_Witness ==
    /\ uid # None
    /\ uid = current_uid
    /\ seen_once
    /\ last_detection_ms = now
    /\ ~tagRead

\* C18: a consumption step whose write fails leaves the tracker Tracking
\* the same uid with the decremented quantities in memory; the quantities
\* stay as they are until the next step, which decrements from them and
\* attempts the write again.
C18_FailedWriteKeepsDecrement ==
    [][/\ (consumed' /\ written' = "failed")
           => /\ current_uid' = current_uid
              /\ current_uid' # None
              /\ current_state' = consume_filament_rotation(current_state)
       /\ consumed'
           => /\ current_state' = consume_filament_rotation(current_state)
              /\ meters_per_rotation(current_state) > 0 => written' # "none"
       /\ (~consumed' /\ ~tagRead' /\ current_uid' # None)
           => current_state' = current_state]_vars

\* C18 witness: two steps in a row whose writes both failed: the tag still
\* holds the document it was loaded from and the memory holds the quantities
\* decremented twice.
C18_Witness ==
    /\ consumed
    /\ written = "failed"
    /\ current_uid # None
    /\ tag[current_uid] = DocTag(DocFull)
    /\ current_state =
           consume_filament_rotation(consume_filament_rotation(normalise_tag_data(DocFull)))

\* C22: at the end of every iteration the tracker's variables are coupled:
\* current_uid is set exactly when current_state is set, and the confirmed
\* flag is false whenever current_uid is unset.
C22_TrackerCoupled ==
    /\ current_uid # None <=> current_state # NoState
    /\ current_uid = None => ~seen_once

\* C22 witness: a tracked tag has been forgotten after a long absence, uid
\* and state cleared together.
C22_Witness ==
    /\ uid = None
    /\ last_detection_ms > 0
    /\ Gap >= 4 * TAG_ABSENCE_MS
    /\ current_uid = None
    /\ current_state = NoState
    /\ ~seen_once

\* C23: every write to the tag is made in an iteration whose scan returned
\* no uid, inside a consumption step, at least TAG_ABSENCE_MS after the last
\* sighting; an iteration that sighted a tag writes nothing, and what the tag
\* holds changes only in an iteration that saw no tag and wrote.
C23_WritesOnlyWhileAbsent ==
    /\ [](written # "none" => (uid = None /\ consumed /\ Gap >= TAG_ABSENCE_MS))
    /\ [][tag' # tag => (uid' = None /\ written' # "none")]_vars

\* C23 witness: a step's write succeeded while no tag was seen: the tag
\* holds the decremented document.
C23_Witness ==
    /\ written = "ok"
    /\ uid = None
    /\ current_uid # None
    /\ Gap >= TAG_ABSENCE_MS
    /\ tag[current_uid] = DocTag(current_state.data)
    /\ current_state.data["meters_rem"] < current_state.data["meters_full"]


\* --------------------------------------------------- claims: tag store
\* A write_ndef_json call that wrote every page was followed by a
\* read_ndef_json call with the default arguments whose page reads all
\* succeeded.
ReadBackOfWrite ==
    /\ phase = "read"
    /\ wr.kind = "ok"
    /\ wr.start_page = START_PAGE
    /\ rd.start_page = START_PAGE
    /\ rd.max_pages = DEFAULT_MAX_PAGES
    /\ rd.failAt = 0

\* C4: a document written by write_ndef_json with all page writes succeeding
\* is what read_ndef_json (default arguments, all page reads succeeding)
\* returns, for every serialised text length that fits on the tag.
C4_RoundTrip ==
    ReadBackOfWrite => rd.result = [kind |-> "doc", text |-> wr.text]

\* The last page the padded container of the write would occupy.
LastPageNeeded == wr.start_page + ((Len(wr.tlv) + 3) \div 4) - 1

\* The sequence s lists the pages a..b in ascending order, each once.
IsRange(s, a, b) == Len(s) = b - a + 1 /\ \A i \in 1..Len(s) : s[i] = a + i - 1

\* C6: write_ndef_json fails with the capacity error without writing (or
\* trying to write) any page whenever the padded encoding would extend past
\* MAX_PAGE, and every page it does write lies in [start_page, MAX_PAGE].
C6_CapacityCheckedFirst ==
    wr.kind # "idle" =>
        /\ LastPageNeeded > MAX_PAGE
               => (wr.kind = "capacity" /\ wr.calls = <<>> /\ mem = wr.before)
        /\ \A i \in 1..Len(wr.calls) :
               wr.calls[i] >= wr.start_page /\ wr.calls[i] <= MAX_PAGE

\* C6 witness: a write refused for capacity that a smaller tag area caused,
\* the tag left as it was.
C6_Witness == wr.kind = "capacity" /\ wr.start_page # START_PAGE /\ mem = wr.before

\* C7: when the k-th page write fails, write_ndef_json fails naming that
\* page; the pages handed to the driver are the first k, each once (nothing
\* after the failing page, no retry); the pages before it hold the new bytes
\* and every page from it on holds what it held before (no rollback).
C7_FailsAtFirstBadPage ==
    wr.kind = "write_error" =>
        /\ wr.page = wr.start_page + wr.failAt - 1
        /\ IsRange(wr.calls, wr.start_page, wr.page)
        /\ \A p \in Pages :
               mem[p] = IF p >= wr.start_page /\ p < wr.page
                        THEN BlockOf(Pad4(wr.tlv), p - wr.start_page)
                        ELSE wr.before[p]
C7_Witness ==
    /\ wr.kind = "write_error"
    /\ wr.failAt = 3
    /\ mem # wr.before
    /\ \E p \in Pages :
           /\ p >= wr.page
           /\ p <= LastPageNeeded
           /\ mem[p] # BlockOf(Pad4(wr.tlv), p - wr.start_page)

\* The first byte of raw that is not 0x00 padding, 0 when there is none.
FirstContainerByte(raw) ==
    IF SkipPadding(raw, 0) >= Len(raw) THEN 0 ELSE raw[SkipPadding(raw, 0) + 1]

\* The pages read hold no NDEF container or no text: nothing but zeros, a
\* terminator before any container, an NDEF container of length zero, or a
\* text record with an empty text.
HoldsNoRecord(raw) ==
    \/ FirstContainerByte(raw) = 0
    \/ FirstContainerByte(raw) = TERMINATOR_TLV
    \/ /\ FirstContainerByte(raw) = NDEF_TLV
       /\ SkipPadding(raw, 0) + 2 <= Len(raw)
       /\ raw[SkipPadding(raw, 0) + 2] = 0
    \/ raw = EncodeTlv(EncodeTextRecord(<<>>)) \o <<0, 0>>

\* C8: read_ndef_json returns None whenever the pages read hold no NDEF
\* container or no text record, and the only exception it raises is the parse
\* error of a text that decoded.
C8_NoneOrParseError ==
    rd.kind = "called" =>
        /\ HoldsNoRecord(rd.raw) => rd.result.kind = "none"
        /\ rd.result.kind # "error"

\* C9: _encode_tlv starts with 0x03 and ends with 0xFE, gives the length in
\* one byte up to 254 and as 0xFF plus two big-endian bytes above, and the
\* container scan of read_ndef_json gets exactly the wrapped record back from
\* the (padded) container.
C9_TlvLengthForms ==
    wr.kind # "idle" =>
        LET record == EncodeTextRecord(wr.text)
            n      == Len(record)
        IN  /\ wr.tlv[1] = NDEF_TLV
            /\ wr.tlv[Len(wr.tlv)] = TERMINATOR_TLV
            /\ n <= 254 => (Len(wr.tlv) = n + 3 /\ wr.tlv[2] = n)
            /\ n > 254 => /\ Len(wr.tlv) = n + 5
                          /\ wr.tlv[2] = 255
                          /\ wr.tlv[3] * 256 + wr.tlv[4] = n
            /\ ScanFrom(Pad4(wr.tlv), 0) = [kind |-> "message", message |-> record]

\* C9 witness: a record of the boundary length 254, wrapped in the one-byte
\* form (its length byte equals the terminator byte) and recovered by the scan.
C9_Witness ==
    /\ wr.kind # "idle"
    /\ Len(EncodeTextRecord(wr.text)) = 254
    /\ wr.tlv[2] = TERMINATOR_TLV
    /\ ScanFrom(Pad4(wr.tlv), 0).message = EncodeTextRecord(wr.text)

\* What the container scan of the latest read_ndef_json call found.
Scanned == ScanFrom(rd.raw, 0)

\* The message is not a well-formed well-known 'T' text record: it is empty,
\* it is a record of another kind (TNF) or type, or it ends inside its header
\* or length fields.
NotATextRecord(m) ==
    \/ m = <<>>
    \/ m[1] % 8 # 1
    \/ Len(m) < (IF (m[1] \div 16) % 2 = 1 THEN 3 ELSE 6)
    \/ LET idx == IF (m[1] \div 16) % 2 = 1 THEN 3 ELSE 6
       IN  Slice(m, idx, idx + m[2]) # <<84>>

\* C15: _decode_text_record returns None and does not raise for every
\* message that is not a well-formed 'T' text record: an empty message, a
\* record of another kind or type, a message cut inside its header or length
\* fields.
C15_DecodeNoneNeverRaises ==
    (rd.kind = "called" /\ Scanned.kind = "message" /\ NotATextRecord(Scanned.message))
        => DecodeTextRecord(Scanned.message).kind = "none"

\* The first container of raw is an NDEF container whose header declares
\* more bytes than raw holds after it (or whose three-byte length is itself
\* cut short).
DeclaredBeyondRead(raw) ==
    LET idx == SkipPadding(raw, 0)
    IN  /\ idx + 1 < Len(raw)
        /\ raw[idx + 1] = NDEF_TLV
        /\ IF raw[idx + 2] = 255
           THEN \/ idx + 4 > Len(raw)
                \/ idx + 4 + raw[idx + 3] * 256 + raw[idx + 4] > Len(raw)
           ELSE idx + 2 + raw[idx + 2] > Len(raw)

\* C19: when the NDEF container header declares a length that exceeds the
\* bytes read, read_ndef_json returns None: it neither raises nor returns a
\* document built from the truncated bytes.
C19_TruncatedIsAbsent ==
    (rd.kind = "called" /\ DeclaredBeyondRead(rd.raw)) => rd.result.kind = "none"

RECURSIVE WalkContainers(_, _)
\* A scan that walks the whole buffer: padding is skipped, a terminator or
\* the end of the buffer ends it, a container of another type is stepped
\* over by its declared length, and the first NDEF container gives its
\* payload.
WalkContainers(raw, idx0) ==
    LET idx == SkipPadding(raw, idx0)
    IN  IF idx + 1 >= Len(raw) THEN [kind |-> "none"]
        ELSE IF raw[idx + 1] = TERMINATOR_TLV THEN [kind |-> "none"]
        ELSE IF raw[idx + 1] = NDEF_TLV THEN ScanFrom(raw, idx)
        ELSE WalkContainers(raw, idx + 2 + raw[idx + 2])

\* C20: the container scan of read_ndef_json walks the whole buffer: it
\* yields the payload of the first NDEF container also when a container of
\* another type precedes it, and nothing when the buffer holds no NDEF
\* container.
C20_ScanWalksBuffer ==
    rd.kind = "called" => Scanned = WalkContainers(rd.raw, 0)

\* C21: read_ndef_json reads pages in ascending order from start_page, at
\* most max_pages of them and none above MAX_PAGE, and no page after the
\* first page whose read fails or that holds a terminator byte.
C21_ReadsAtMostMaxPages ==
    rd.kind = "called" =>
        /\ IsRange(rd.calls, rd.start_page, rd.calls[Len(rd.calls)])
        /\ Len(rd.calls) <= rd.max_pages
        /\ \A i \in 1..Len(rd.calls) : rd.calls[i] <= MAX_PAGE
        /\ \A i \in 1..(Len(rd.calls) - 1) :
               i # rd.failAt /\ ~Contains(mem[rd.calls[i]], TERMINATOR_TLV)


\* ------------------------------------------- DisplayCycler on its own
\* Number of display intervals followed.
MaxIntervals == 3

\* Time between two update calls: half a display interval or a whole one.
UpdateDeltas == {DISPLAY_INTERVAL_MS \div 2, DISPLAY_INTERVAL_MS}

\* States handed to update: a full spool before and after a rotation, a full
\* spool of another material, and a spool whose tag carries no type.
ShownStates ==
    {normalise_tag_data(DocFull),
     consume_filament_rotation(normalise_tag_data(DocFull)),
     normalise_tag_data(DocFullPetg),
     normalise_tag_data(DocLow)}

DisplayInit ==
    /\ LoopInit
    /\ tag = [u \in UIDs |-> BlankTag]
    /\ StoreOff

\* display_cycler.update(u, state) with any arguments; current_uid and
\* current_state hold the arguments of the call.
DisplayCall ==
    \E u \in UIDs \cup {None}, state \in ShownStates \cup {NoState}, dt \in UpdateDeltas :
        /\ ~fatal
        /\ now < MaxIntervals * DISPLAY_INTERVAL_MS
        /\ now' = now + dt
        /\ current_uid' = u
        /\ current_state' = state
        /\ DisplayUpdate(u, state, now + dt)
        /\ UNCHANGED <<uid, last_detection_ms, seen_once, tag, tagRead, readErr, consumed,
                       written, resighted>>
        /\ UNCHANGED storeVars

DisplayNext == DisplayCall

SpecDisplay == DisplayInit /\ [][DisplayNext]_vars

\* C10: update renders a value only when the triple (mode, grams_rem,
\* meters_rem) differs from the triple of the previous render: with no blank
\* (tag loss) in between, no two consecutive renders carry the same triple.
C10_NoRepeatedRender == [][rendered' # NoPayload => rendered' # lastRender]_vars

\* C10 witness: an update for a shown tag rendered nothing because its triple
\* is the one rendered last.
C10_Witness ==
    /\ current_uid # None
    /\ current_state # NoState
    /\ rendered = NoPayload
    /\ lastRender # NoPayload
    /\ lastRender = Payload(cycler, current_state)

\* C11: every update that finds the tag lost after one was shown, or finds a
\* uid other than the displayed one, leaves the cycler at mode index 0 with
\* its timer restarted and the display either blank or showing what this
\* update rendered for the new tag: never content rendered for the previous
\* tag.
C11_ResetsOnLossOrChange ==
    [][(/\ cycler.current_uid # None
        /\ \/ NothingToShow(current_uid', current_state')
           \/ current_uid' # cycler.current_uid)
       => /\ cycler'.index = 0
          /\ cycler'.next_tick = now' + DISPLAY_INTERVAL_MS
          /\ display' = Blank \/ rendered' # NoPayload]_vars

====
